---- MODULE Spec2Model ----
(***************************************************************************)
(* complex-code-spotter: the snippet extraction of src/snippets.rs with    *)
(* the metric checks of src/metrics.rs, and the scan of src/lib.rs.        *)
(*                                                                         *)
(* A FuncSpace (rust-code-analysis) is a record                            *)
(*   [start_line, end_line, metrics, spaces]                               *)
(* with metrics = [cyclomatic |-> [cyclomatic, cyclomatic_max],            *)
(*                 cognitive  |-> [cognitive,  cognitive_max]]             *)
(* and spaces the ordered sequence of the nested FuncSpaces.               *)
(* A text is a sequence of tokens: NL is the line terminator, every other  *)
(* token is the content of one line.                                       *)
(* Option<T>: None is <<>>, Some(x) is <<x>>.                              *)
(***************************************************************************)
EXTENDS Integers, Sequences, FiniteSets, TLC

VARIABLES
    \* One extraction: the root FuncSpace of the file, its text, the result.
    space, source_file, code_snippets,
    \* Parameters of the SnippetsProducer, and whether output_path is a file.
    complexities, thresholds, write, output_is_file,
    \* The include and exclude globs of the SnippetsProducer.
    include, exclude,
    \* The contents the files under the source path can have.
    tree_contents,
    \* Where run (or the single extraction) stands, and what run returned.
    pc, run_result,
    \* The scan: the number of files under source_path, the pool size, the
    \* next path of the producer, the queue of jobs, and for each worker its
    \* place, the Snippets it is about to push and the length it read.
    num_files, num_jobs, next_path, queue, wpc, wsnip, wlen,
    \* The mutex of the container (0: free, else the holder), the container
    \* and the strong count of its Arc.
    mutex, snippets_context, strong_count,
    \* What extract_file_snippets returned for each path (None: not called
    \* yet), how often each path was handed to it, and the reports written.
    outcome, calls, written

engine_vars == <<space, source_file, code_snippets>>
param_vars == <<complexities, thresholds, write, output_is_file, include, exclude,
               tree_contents>>
scan_vars == <<num_files, num_jobs, next_path, queue, wpc, wsnip, wlen,
               mutex, snippets_context, strong_count, outcome, calls, written>>
vars == <<engine_vars, param_vars, pc, run_result, scan_vars>>

(***************************************************************************)
(* Bounds of the model.                                                    *)
(***************************************************************************)
\* Largest number of FuncSpaces (root included) of a generated file.
MaxSpaces == 3
\* Largest number of files under the source path, and largest pool size.
MaxFiles == 2
MaxJobs == 2

\* Metric values of the generated files.  The generated configurations
\* hold up to two (metric, threshold) pairs with the lowest threshold, or
\* one metric twice with two different thresholds.
MetricValues == {0, 1}
ThresholdValues == {0, 1}
PairCounts == {0, 1, 2}

(***************************************************************************)
(* Option, and the helpers of the standard library the code uses.          *)
(***************************************************************************)
None == <<>>
Some(x) == <<x>>
is_some(o) == o # <<>>
unwrap(o) == o[1]

NL == 0

Min(S) == CHOOSE x \in S : \A y \in S : x <= y
Max(S) == CHOOSE x \in S : \A y \in S : x >= y

RECURSIVE SortedSeq(_)
SortedSeq(S) == IF S = {} THEN <<>>
                ELSE <<Min(S)>> \o SortedSeq(S \ {Min(S)})

\* usize::saturating_sub
saturating_sub(a, b) == IF a > b THEN a - b ELSE 0

\* Iterator::skip and Iterator::take
skip(s, k) == SubSeq(s, k + 1, Len(s))
take(s, k) == SubSeq(s, 1, IF k < Len(s) THEN k ELSE Len(s))

\* str::lines: the pieces between line terminators; the terminator of the
\* last line is optional and gives no empty last piece.
RECURSIVE lines(_)
lines(s) ==
    IF s = <<>> THEN <<>>
    ELSE LET ends == {i \in 1..Len(s) : s[i] = NL}
             k == IF ends = {} THEN Len(s) + 1 ELSE Min(ends)
         IN  <<SubSeq(s, 1, k - 1)>> \o lines(SubSeq(s, k + 1, Len(s)))

\* [&str]::join("\n")
RECURSIVE join(_)
join(ls) ==
    IF ls = <<>> THEN <<>>
    ELSE IF Len(ls) = 1 THEN ls[1]
    ELSE ls[1] \o <<NL>> \o join(Tail(ls))

(***************************************************************************)
(* src/metrics.rs                                                          *)
(***************************************************************************)
Complexity == {"Cyclomatic", "Cognitive"}

\* Mutant: the check looks at the own value only.
Cyclomatic_check_own_only(sp, threshold) ==
    LET value == sp.metrics.cyclomatic.cyclomatic
    IN  IF value > threshold THEN Some(value) ELSE None

Cyclomatic_check(sp, threshold) ==
    LET value == sp.metrics.cyclomatic.cyclomatic
    IN  IF value > threshold \/ sp.metrics.cyclomatic.cyclomatic_max > threshold
        THEN Some(value) ELSE None

Cognitive_check(sp, threshold) ==
    LET value == sp.metrics.cognitive.cognitive
    IN  IF value > threshold \/ sp.metrics.cognitive.cognitive_max > threshold
        THEN Some(value) ELSE None

default_threshold(complexity) ==
    CASE complexity = "Cyclomatic" -> 15
      [] complexity = "Cognitive" -> 15

\* Complexity::value
value(complexity, sp, threshold) ==
    CASE complexity = "Cyclomatic" -> Cyclomatic_check(sp, threshold)
      [] complexity = "Cognitive" -> Cognitive_check(sp, threshold)

(***************************************************************************)
(* src/snippets.rs                                                         *)
(***************************************************************************)
\* A SnippetData. The field by is not in the source: it remembers the
\* threshold of the (metric, threshold) pair on whose behalf save_snippets
\* was called, so that the properties can name the pair of a record.
SnippetData(complexity, start_line, end_line, text, by) ==
    [complexity |-> complexity, start_line |-> start_line,
     end_line |-> end_line, text |-> text, by |-> by]

\* Mutant: the new record is put in front of the list.
save_snippets_in_front(complexity_type, complexity, start_line, end_line, text, by, snips) ==
    LET snippet_data == SnippetData(complexity, start_line, end_line, text, by)
    IN  IF complexity_type \in DOMAIN snips
        THEN [snips EXCEPT ![complexity_type] = <<snippet_data>> \o @]
        ELSE snips @@ (complexity_type :> <<snippet_data>>)

\* snippets.entry(complexity_type).or_insert_with(Vec::new).push(data)
save_snippets(complexity_type, complexity, start_line, end_line, text, by, snips) ==
    LET snippet_data == SnippetData(complexity, start_line, end_line, text, by)
    IN  IF complexity_type \in DOMAIN snips
        THEN [snips EXCEPT ![complexity_type] = Append(@, snippet_data)]
        ELSE snips @@ (complexity_type :> <<snippet_data>>)

\* The for_each over the pairs, in order.
RECURSIVE obtain_snippets_single_space(_, _, _, _)
obtain_snippets_single_space(sp, file, complexity_thresholds, snips) ==
    IF complexity_thresholds = <<>> THEN snips
    ELSE LET complexity == Head(complexity_thresholds)[1]
             threshold == Head(complexity_thresholds)[2]
             v == value(complexity, sp, threshold)
             saved == IF is_some(v)
                      THEN save_snippets(complexity, unwrap(v), sp.start_line,
                                         sp.end_line, file, threshold, snips)
                      ELSE snips
         IN  obtain_snippets_single_space(sp, file, Tail(complexity_thresholds), saved)

\* Mutant: the text of a space is the whole file.
snippet_text_whole_file(sp, file) == file

\* The text of a space: the lines start_line..=end_line of the file.
snippet_text(sp, file) ==
    join(take(skip(lines(file), saturating_sub(sp.start_line, 1)),
              (sp.end_line - sp.start_line) + 1))

\* Mutant: a pair whose check fails is kept for the subtree.
RECURSIVE check_space_keeps_all(_, _, _, _)
check_space_keeps_all(sp, file, complexity_thresholds, snips) ==
    IF complexity_thresholds = <<>>
    THEN [complexity_thresholds |-> <<>>, snippets |-> snips]
    ELSE LET complexity == Head(complexity_thresholds)[1]
             threshold == Head(complexity_thresholds)[2]
             v == value(complexity, sp, threshold)
             saved == IF is_some(v) /\ unwrap(v) > threshold
                      THEN save_snippets(complexity, unwrap(v), sp.start_line,
                                         sp.end_line, snippet_text(sp, file),
                                         threshold, snips)
                      ELSE snips
             rest == check_space_keeps_all(sp, file, Tail(complexity_thresholds), saved)
         IN  [rest EXCEPT !.complexity_thresholds =
                              <<(<<complexity, threshold>>)>> \o @]

\* Mutant: a snippet is saved whenever the check passes.
RECURSIVE check_space_saves_all(_, _, _, _)
check_space_saves_all(sp, file, complexity_thresholds, snips) ==
    IF complexity_thresholds = <<>>
    THEN [complexity_thresholds |-> <<>>, snippets |-> snips]
    ELSE LET complexity == Head(complexity_thresholds)[1]
             threshold == Head(complexity_thresholds)[2]
             v == value(complexity, sp, threshold)
             saved == IF is_some(v)
                      THEN save_snippets(complexity, unwrap(v), sp.start_line,
                                         sp.end_line, snippet_text(sp, file),
                                         threshold, snips)
                      ELSE snips
             rest == check_space_saves_all(sp, file, Tail(complexity_thresholds), saved)
         IN  IF is_some(v)
             THEN [rest EXCEPT !.complexity_thresholds =
                                   <<(<<complexity, threshold>>)>> \o @]
             ELSE rest

\* The filter_map of obtain_snippets over the pairs, in order, for one
\* space: the pairs whose check passes are kept, and a pair whose value is
\* above its threshold saves a snippet.  Gives the kept pairs and the map.
RECURSIVE check_space(_, _, _, _)
check_space(sp, file, complexity_thresholds, snips) ==
    IF complexity_thresholds = <<>>
    THEN [complexity_thresholds |-> <<>>, snippets |-> snips]
    ELSE LET complexity == Head(complexity_thresholds)[1]
             threshold == Head(complexity_thresholds)[2]
             v == value(complexity, sp, threshold)
             saved == IF is_some(v) /\ unwrap(v) > threshold
                      THEN save_snippets(complexity, unwrap(v), sp.start_line,
                                         sp.end_line, snippet_text(sp, file),
                                         threshold, snips)
                      ELSE snips
             rest == check_space(sp, file, Tail(complexity_thresholds), saved)
         IN  IF is_some(v)
             THEN [rest EXCEPT !.complexity_thresholds =
                                   <<(<<complexity, threshold>>)>> \o @]
             ELSE rest

RECURSIVE obtain_snippets(_, _, _, _)
obtain_snippets(spaces, file, complexity_thresholds, snips) ==
    IF spaces = <<>> THEN snips
    ELSE LET sp == Head(spaces)
             checked == check_space(sp, file, complexity_thresholds, snips)
             inner == IF checked.complexity_thresholds # <<>>
                      THEN obtain_snippets(sp.spaces, file,
                                           checked.complexity_thresholds,
                                           checked.snippets)
                      ELSE checked.snippets
         IN  obtain_snippets(Tail(spaces), file, complexity_thresholds, inner)

\* complexities.iter().zip(thresholds)
RECURSIVE zip(_, _)
zip(a, b) == IF a = <<>> \/ b = <<>> THEN <<>>
             ELSE <<(<<Head(a), Head(b)>>)>> \o zip(Tail(a), Tail(b))

\* The pairs whose check passes on the space.
RECURSIVE surviving(_, _)
surviving(sp, pairs) ==
    IF pairs = <<>> THEN <<>>
    ELSE IF is_some(value(Head(pairs)[1], sp, Head(pairs)[2]))
         THEN <<Head(pairs)>> \o surviving(sp, Tail(pairs))
         ELSE surviving(sp, Tail(pairs))

Snippets_new(source_path, language) ==
    [source_path |-> source_path, language |-> language, snippets |-> <<>>]

get_code_snippets(sp, language, source_path, file, cs, ts) ==
    LET complexity_thresholds == surviving(sp, zip(cs, ts))
        metrics_snippets == Snippets_new(source_path, language)
    IN  IF complexity_thresholds = <<>> THEN None
        ELSE IF sp.spaces = <<>>
        THEN Some([metrics_snippets EXCEPT !.snippets =
                 obtain_snippets_single_space(sp, file, complexity_thresholds, @)])
        ELSE Some([metrics_snippets EXCEPT !.snippets =
                 obtain_snippets(sp.spaces, file, complexity_thresholds, @)])

(***************************************************************************)
(* The files the Analyzer can hand over: the generated FuncSpace trees.    *)
(* The spaces are numbered in source order (pre-order); space i starts at  *)
(* line i and ends at the last line of its last descendant, the root       *)
(* covers the whole file and line i of the file has the content i.         *)
(***************************************************************************)
RECURSIVE AncSelf(_, _)
AncSelf(par, i) == IF i = 1 THEN {1} ELSE {i} \cup AncSelf(par, par[i])

ParentFns(n) ==
    {par \in [2..n -> 1..n] :
        \A i \in 2..n : par[i] < i /\ par[i] \in AncSelf(par, i - 1)}

MetricsSet ==
    {m \in [cyclomatic : [cyclomatic : MetricValues, cyclomatic_max : MetricValues],
            cognitive : [cognitive : MetricValues, cognitive_max : MetricValues]] :
        /\ m.cyclomatic.cyclomatic_max >= m.cyclomatic.cyclomatic
        /\ m.cognitive.cognitive_max >= m.cognitive.cognitive}

RECURSIVE MkSpace(_, _, _, _)
MkSpace(par, met, n, i) ==
    LET kids == SortedSeq({j \in 2..n : par[j] = i})
    IN  [start_line |-> i,
         end_line |-> Max({j \in i..n : i \in AncSelf(par, j)}),
         metrics |-> met[i],
         spaces |-> [k \in 1..Len(kids) |-> MkSpace(par, met, n, kids[k])]]

RECURSIVE MkFile(_)
MkFile(n) == IF n = 0 THEN <<>> ELSE MkFile(n - 1) \o <<n, NL>>

Configs ==
    UNION {[1..k -> Complexity] \X {[i \in 1..k |-> Min(ThresholdValues)]} :
              k \in PairCounts}
    \cup {<<(<<c, c>>), t>> :
              c \in Complexity,
              t \in {u \in ThresholdValues \X ThresholdValues : u[1] # u[2]}}

(***************************************************************************)
(* The two files of the documented scenarios, with one (Cyclomatic, 15)    *)
(* pair.  A: one space without children, own and max 20.  B: a root (max   *)
(* 30) with the children A (own 20, no children) and B (own 5, max 25),    *)
(* B holding C (own 25).  The own value of B's root is not given: both a   *)
(* root that carries the 30 itself and a root with own value 0 are taken.  *)
(***************************************************************************)
Metrics(cy, cy_max, cg, cg_max) ==
    [cyclomatic |-> [cyclomatic |-> cy, cyclomatic_max |-> cy_max],
     cognitive |-> [cognitive |-> cg, cognitive_max |-> cg_max]]

ScenarioA == MkSpace(<<>>, <<Metrics(20, 20, 0, 0)>>, 1, 1)

ScenarioB(root_own) ==
    MkSpace([i \in 2..4 |-> IF i = 4 THEN 3 ELSE 1],
            <<Metrics(root_own, 30, 0, 0), Metrics(20, 20, 0, 0),
              Metrics(5, 25, 0, 0), Metrics(25, 25, 0, 0)>>, 4, 1)

ScenarioSpaces == {ScenarioA, ScenarioB(30), ScenarioB(0)}

\* No scan is going on.
ScanIdle ==
    /\ num_files = 0
    /\ num_jobs = 0
    /\ next_path = 1
    /\ queue = <<>>
    /\ wpc = <<>>
    /\ wsnip = <<>>
    /\ wlen = <<>>
    /\ mutex = 0
    /\ snippets_context = <<>>
    /\ strong_count = 0
    /\ outcome = <<>>
    /\ calls = <<>>
    /\ written = {}

(***************************************************************************)
(* The extraction of one file.                                             *)
(***************************************************************************)
InitEngine ==
    /\ \/ /\ \E n \in 1..MaxSpaces :
               \E par \in ParentFns(n) :
                 \E met \in [1..n -> MetricsSet] :
                   /\ space = MkSpace(par, met, n, 1)
                   /\ source_file = MkFile(n)
          /\ \E cfg \in Configs :
               /\ complexities = cfg[1]
               /\ thresholds = cfg[2]
       \/ /\ space \in ScenarioSpaces
          /\ source_file = MkFile(space.end_line)
          /\ complexities = <<"Cyclomatic">>
          /\ thresholds = <<default_threshold("Cyclomatic")>>
    /\ code_snippets = None
    /\ pc = "analyzed"
    /\ write = FALSE
    /\ output_is_file = FALSE
    /\ include = <<>>
    /\ exclude = <<>>
    /\ tree_contents = {}
    /\ run_result = None
    /\ ScanIdle

Extract ==
    /\ pc = "analyzed"
    /\ code_snippets' = get_code_snippets(space, "Rust", 1, source_file,
                                          complexities, thresholds)
    /\ pc' = "extracted"
    /\ UNCHANGED <<space, source_file, param_vars, run_result, scan_vars>>

NextEngine == Extract

SpecEngine == InitEngine /\ [][NextEngine]_vars

(***************************************************************************)
(* What the properties of the extraction speak about.                      *)
(***************************************************************************)
\* The spaces of a tree, the tree's root included.
RECURSIVE SubSpaces(_)
SubSpaces(sp) ==
    {sp} \cup UNION {SubSpaces(sp.spaces[k]) : k \in 1..Len(sp.spaces)}

\* The spaces of a tree in depth-first, left-to-right order.
RECURSIVE PreOrder(_)
RECURSIVE PreOrderAll(_)
PreOrder(sp) == <<sp>> \o PreOrderAll(sp.spaces)
PreOrderAll(sps) ==
    IF sps = <<>> THEN <<>> ELSE PreOrder(Head(sps)) \o PreOrderAll(Tail(sps))

own_value(complexity, sp) ==
    IF complexity = "Cyclomatic" THEN sp.metrics.cyclomatic.cyclomatic
    ELSE sp.metrics.cognitive.cognitive

max_value(complexity, sp) ==
    IF complexity = "Cyclomatic" THEN sp.metrics.cyclomatic.cyclomatic_max
    ELSE sp.metrics.cognitive.cognitive_max

\* The Region invariants: max_value is the largest own_value of the subtree
\* (so max_value = own_value for a space without children).
LeafInvariant(sp) ==
    \A r \in SubSpaces(sp) : \A c \in Complexity :
        r.spaces = <<>> => max_value(c, r) = own_value(c, r)

MaxInvariant(sp) ==
    \A r \in SubSpaces(sp) : \A c \in Complexity :
        max_value(c, r) = Max({own_value(c, d) : d \in SubSpaces(r)})

Extracted == pc = "extracted"

\* The records of a metric in the result (none when there is no result).
Records(c) ==
    IF is_some(code_snippets) /\ c \in DOMAIN unwrap(code_snippets).snippets
    THEN unwrap(code_snippets).snippets[c] ELSE <<>>

\* The selected (metric, threshold) pairs.
Pairs == zip(complexities, thresholds)
PairSet == {Pairs[i] : i \in 1..Len(Pairs)}

\* rec is a record for the space r.
RecordOf(rec, r) == rec.start_line = r.start_line /\ rec.end_line = r.end_line

\* The tokens of the lines a..=b of a generated file.
RECURSIVE LineRange(_, _)
LineRange(a, b) == IF a > b THEN <<>>
                   ELSE IF a = b THEN <<a>>
                   ELSE <<a, NL>> \o LineRange(a + 1, b)


\* The records obtain_snippets_single_space is to give for a metric at a
\* root without children: one for each selected pair of the metric whose
\* own or max value is above the threshold, in the order of the pairs.
RECURSIVE RootRecords(_, _)
RootRecords(c, pairs) ==
    IF pairs = <<>> THEN <<>>
    ELSE LET t == Head(pairs)[2]
         IN  IF Head(pairs)[1] = c /\ (own_value(c, space) > t \/ max_value(c, space) > t)
             THEN <<SnippetData(own_value(c, space), space.start_line,
                                space.end_line, source_file, t)>>
                  \o RootRecords(c, Tail(pairs))
             ELSE RootRecords(c, Tail(pairs))

\* The place of the space a record is for in a sequence of spaces.
Pos(rec, order) == CHOOSE k \in 1..Len(order) : RecordOf(rec, order[k])

(***************************************************************************)
(* C1.  Pruning, as stated: when the check of a selected (metric,          *)
(* threshold) pair returns None on a region r, the result holds no record  *)
(* of that metric for r or for a descendant of r.                          *)
(* Violated, also on the trees that satisfy the Region invariants, when    *)
(* the metric is selected twice with two thresholds: the pair with the     *)
(* lower threshold still records r.                                        *)
(***************************************************************************)
C1_NoRecordOfMetricWhenPruned ==
    (Extracted /\ MaxInvariant(space)) =>
        \A r \in SubSpaces(space) : \A p \in PairSet :
            value(p[1], r, p[2]) = None =>
                \A d \in SubSpaces(r) : \A i \in 1..Len(Records(p[1])) :
                    ~RecordOf(Records(p[1])[i], d)

(***************************************************************************)
(* C1, amended.  When the check of a selected pair returns None on a       *)
(* region r, the result holds no record made for that pair (its metric     *)
(* and its threshold) for r or for a descendant of r.                      *)
(***************************************************************************)
C1_NoRecordOfPairWhenPruned ==
    Extracted =>
        \A r \in SubSpaces(space) : \A p \in PairSet :
            value(p[1], r, p[2]) = None =>
                \A d \in SubSpaces(r) : \A i \in 1..Len(Records(p[1])) :
                    ~(RecordOf(Records(p[1])[i], d) /\ Records(p[1])[i].by = p[2])

\* A pair that passed at the root is pruned at a region with children, in a
\* file that has records.
C1_Witness ==
    /\ Extracted
    /\ MaxInvariant(space)
    /\ \E c \in Complexity : Len(Records(c)) > 0
    /\ \E r \in SubSpaces(space) \ {space} : \E p \in PairSet :
          /\ r.spaces # <<>>
          /\ is_some(value(p[1], space, p[2]))
          /\ value(p[1], r, p[2]) = None

(***************************************************************************)
(* C2.  Given max_value = own_value for every region without children,     *)
(* every record of the result has a complexity value strictly above the    *)
(* threshold of the pair it was made for, the whole-file record of a root  *)
(* without children included.                                              *)
(***************************************************************************)
C2_ValueAboveThreshold ==
    (Extracted /\ LeafInvariant(space)) =>
        \A c \in Complexity : \A i \in 1..Len(Records(c)) :
            Records(c)[i].complexity > Records(c)[i].by

\* The whole-file record of a root without children has been made.
C2_Witness ==
    /\ Extracted
    /\ LeafInvariant(space)
    /\ space.spaces = <<>>
    /\ \E c \in Complexity : Len(Records(c)) > 0 /\ Records(c)[1].text = source_file

(***************************************************************************)
(* C3.  A file for which no record was made gives no Snippets: whenever    *)
(* get_code_snippets returns Some, the Snippets hold at least one record   *)
(* (here for the trees that satisfy the Region invariants).                *)
(* Violated: a root with children whose own value is above the threshold   *)
(* while no other region's is gives Some of an empty map.                  *)
(***************************************************************************)
C3_NoSnippetsWithoutRecord ==
    (Extracted /\ MaxInvariant(space) /\ is_some(code_snippets)) =>
        \E c \in Complexity : Len(Records(c)) > 0

(***************************************************************************)
(* C4.  Completeness, as stated: in a tree that satisfies the Region       *)
(* invariants, every region whose own value is above the threshold of a    *)
(* selected pair has a record of that metric with its lines.               *)
(* Violated by a root that has children: it is never recorded.             *)
(***************************************************************************)
C4_EveryRegionFound ==
    (Extracted /\ MaxInvariant(space)) =>
        \A r \in SubSpaces(space) : \A p \in PairSet :
            own_value(p[1], r) > p[2] =>
                \E i \in 1..Len(Records(p[1])) : RecordOf(Records(p[1])[i], r)

(***************************************************************************)
(* C4, amended.  In a tree that satisfies the Region invariants, every     *)
(* region other than a root that has children, whose own value is above    *)
(* the threshold of a selected pair, has a record of that metric with its  *)
(* lines.                                                                  *)
(***************************************************************************)
C4_EveryRegionBelowRootFound ==
    (Extracted /\ MaxInvariant(space)) =>
        \A r \in SubSpaces(space) : \A p \in PairSet :
            (own_value(p[1], r) > p[2] /\ (r # space \/ space.spaces = <<>>)) =>
                \E i \in 1..Len(Records(p[1])) : RecordOf(Records(p[1])[i], r)

\* A region above the threshold is found inside an enclosing region (not the
\* root) whose own value is not above it.
C4_Witness ==
    /\ Extracted
    /\ MaxInvariant(space)
    /\ \E r \in SubSpaces(space) \ {space} : \E p \in PairSet :
          /\ own_value(p[1], r) <= p[2]
          /\ \E k \in 1..Len(r.spaces) :
                /\ own_value(p[1], r.spaces[k]) > p[2]
                /\ \E i \in 1..Len(Records(p[1])) :
                      RecordOf(Records(p[1])[i], r.spaces[k])

(***************************************************************************)
(* C5.  At a root without children the result holds, for each metric,      *)
(* exactly one record for each selected pair whose check passes at the     *)
(* root, with the root's lines, the root's own value and the whole file    *)
(* as text, and nothing else.  At a root with children no record is for    *)
(* the root or has the whole file as text: every record is for a region    *)
(* below the root and its text is the lines start_line..=end_line of it.   *)
(***************************************************************************)
C5_WholeFileOnlyAtChildlessRoot ==
    Extracted =>
        /\ space.spaces = <<>> =>
              /\ \A c \in Complexity : Records(c) = RootRecords(c, Pairs)
              /\ is_some(code_snippets) <=>
                    \E c \in Complexity : RootRecords(c, Pairs) # <<>>
        /\ space.spaces # <<>> =>
              \A c \in Complexity : \A i \in 1..Len(Records(c)) :
                  /\ Records(c)[i].text # source_file
                  /\ ~RecordOf(Records(c)[i], space)
                  /\ \E r \in SubSpaces(space) \ {space} :
                        /\ RecordOf(Records(c)[i], r)
                        /\ Records(c)[i].text = LineRange(r.start_line, r.end_line)

\* A root without children has got its whole-file records, two for a metric.
C5_Witness ==
    /\ Extracted
    /\ space.spaces = <<>>
    /\ \E c \in Complexity :
          /\ Len(Records(c)) = 2
          /\ Records(c)[1].text = source_file

(***************************************************************************)
(* C6.  For each metric the records follow the depth-first, left-to-right  *)
(* order of the regions they are for; and the file of scenario B gives     *)
(* exactly the record of A (value 20) and then the record of C (value 25), *)
(* for Cyclomatic alone.                                                   *)
(***************************************************************************)
C6_RecordsInPreOrder ==
    Extracted =>
        /\ LET order == PreOrder(space)
           IN  \A c \in Complexity : \A i \in 2..Len(Records(c)) :
                   Pos(Records(c)[i - 1], order) <= Pos(Records(c)[i], order)
        /\ space \in {ScenarioB(30), ScenarioB(0)} =>
              /\ is_some(code_snippets)
              /\ DOMAIN unwrap(code_snippets).snippets = {"Cyclomatic"}
              /\ Records("Cyclomatic") =
                    <<SnippetData(20, 2, 2, <<2>>, 15), SnippetData(25, 4, 4, <<4>>, 15)>>

\* The file of scenario B has been extracted.
C6_Witness ==
    /\ Extracted
    /\ space = ScenarioB(30)
    /\ Len(Records("Cyclomatic")) = 2

(***************************************************************************)
(* src/error.rs: Result<T>                                                 *)
(***************************************************************************)
Ok(x) == [ok |-> TRUE, value |-> x, error |-> ""]
Err(e) == [ok |-> FALSE, value |-> None, error |-> e]

PerFileErrors == {"WrongContent", "UnknownLanguage", "NoSpaces", "NonUtf8Conversion"}

(***************************************************************************)
(* The content of a file under the source path, as the collaborators see   *)
(* it: what read_file_with_eol gives (an I/O error, no content, or bytes), *)
(* the encoding of the bytes and the text they stand for, the language     *)
(* guess_language finds and the FuncSpace get_function_spaces builds.      *)
(***************************************************************************)
FileContent(read, encoding, language, spaces) ==
    [read |-> read, encoding |-> encoding,
     text |-> IF is_some(spaces) THEN MkFile(unwrap(spaces).end_line) ELSE MkFile(1),
     language |-> language, spaces |-> spaces]

\* A file below the thresholds, and a file whose root alone is above.
CleanSpace ==
    MkSpace([i \in 2..2 |-> 1], <<Metrics(1, 3, 0, 0), Metrics(3, 3, 0, 0)>>, 2, 1)
RootOnlySpace ==
    MkSpace([i \in 2..2 |-> 1], <<Metrics(20, 20, 0, 0), Metrics(5, 5, 0, 0)>>, 2, 1)

FileContents ==
    {FileContent("io_error", "utf8", None, None),
     FileContent("none", "utf8", None, None),
     FileContent("bytes", "invalid", None, None),
     FileContent("bytes", "utf8", None, None),
     FileContent("bytes", "utf8", Some("Rust"), None),
     FileContent("bytes", "utf8", Some("Rust"), Some(CleanSpace)),
     FileContent("bytes", "utf8", Some("Rust"), Some(RootOnlySpace)),
     FileContent("bytes", "utf8", Some("Rust"), Some(ScenarioA)),
     FileContent("bytes", "shift_jis", Some("Rust"), Some(ScenarioB(30)))}

(***************************************************************************)
(* src/non_utf8.rs                                                         *)
(***************************************************************************)
BUFFER_SIZE == 4096

\* A run of k NUL characters, as one token of a text.
Nuls(k) == IF k > 0 THEN <<0 - k>> ELSE <<>>

\* The decoder writes into a zeroed buffer of BUFFER_SIZE bytes and the whole
\* buffer is returned as the text.
encode_to_utf8(content) ==
    IF content.encoding = "shift_jis" /\ Len(content.text) <= BUFFER_SIZE
    THEN Ok(content.text \o Nuls(BUFFER_SIZE - Len(content.text)))
    ELSE Err("NonUtf8Conversion")

(***************************************************************************)
(* src/lib.rs                                                              *)
(***************************************************************************)
\* SnippetsProducer::thresholds: every value is capped at 100.
MAX_THRESHOLD == 100
clamp(v) == [i \in 1..Len(v) |-> IF v[i] < MAX_THRESHOLD THEN v[i] ELSE MAX_THRESHOLD]

\* Mutant: only missing thresholds are refused.
thresholds_mismatch_less(cs, ts) == Len(cs) > Len(ts)

\* run: "each complexity has an associated threshold".
thresholds_mismatch(cs, ts) == Len(cs) # Len(ts)

\* Mutant: a file without spaces gives an empty Snippets instead of NoSpaces.
extract_file_snippets_no_spaces(source_path, content, cs, ts) ==
    IF content.read = "io_error" THEN Err("Io")
    ELSE IF content.read = "none" THEN Err("WrongContent")
    ELSE LET decoded == IF content.encoding = "utf8" THEN Ok(content.text)
                        ELSE encode_to_utf8(content)
         IN  IF ~decoded.ok THEN decoded
             ELSE IF content.language = None THEN Err("UnknownLanguage")
             ELSE IF content.spaces = None
             THEN Ok(Some(Snippets_new(source_path, unwrap(content.language))))
             ELSE Ok(get_code_snippets(unwrap(content.spaces), unwrap(content.language),
                                       source_path, decoded.value, cs, ts))

\* extract_file_snippets up to the push: Err of the failure, or Ok of what
\* get_code_snippets returned (the Snippets to push, if any).
extract_file_snippets(source_path, content, cs, ts) ==
    IF content.read = "io_error" THEN Err("Io")
    ELSE IF content.read = "none" THEN Err("WrongContent")
    ELSE LET decoded == IF content.encoding = "utf8" THEN Ok(content.text)
                        ELSE encode_to_utf8(content)
         IN  IF ~decoded.ok THEN decoded
             ELSE IF content.language = None THEN Err("UnknownLanguage")
             ELSE IF content.spaces = None THEN Err("NoSpaces")
             ELSE Ok(get_code_snippets(unwrap(content.spaces), unwrap(content.language),
                                       source_path, decoded.value, cs, ts))

\* Mutant: the lock is not waited for.
lock_free_always(m) == TRUE

\* Mutex::lock goes through when no thread holds the mutex.
lock_free(m) == m = 0

\* Mutant: the container keeps the last element only.
vec_push_last_only(v, len, x) == <<x>>

\* Mutant: the guard of the mutex is kept.
MutexGuard_leak(m) == m

\* The guard of the mutex is dropped at the end of the statement.
MutexGuard_drop(m) == 0

\* Vec::push: the element is written at the length read, which becomes the
\* length plus one.
vec_push(v, len, x) ==
    IF len < Len(v) THEN [v EXCEPT ![len + 1] = x] ELSE Append(v, x)

(***************************************************************************)
(* Paths and globs.  A path and a glob are sequences of pieces; in a glob  *)
(* the piece "*" stands for any run of characters and a glob with the      *)
(* piece "[" has a character class that is not closed.                     *)
(***************************************************************************)
\* The files under the source path, in the order the walk finds them:
\* foo/test.rs, foo_test.rs, foo_test.c.
SourceTree ==
    <<<<"foo", "/", "test", ".rs">>,
      <<"foo", "_", "test", ".rs">>,
      <<"foo", "_", "test", ".c">>>>
Name(p) == SourceTree[((p - 1) % Len(SourceTree)) + 1]

\* Glob::new: a pattern that is not well formed is an error.
Glob_new(e) ==
    IF \E i \in 1..Len(e) : e[i] = "[" THEN Err("Glob") ELSE Ok(e)

\* Glob matching of a whole path: "*" also matches the separator.
is_suffix(t, name) ==
    /\ Len(t) <= Len(name)
    /\ SubSeq(name, Len(name) - Len(t) + 1, Len(name)) = t
glob_match(glob, name) ==
    IF glob # <<>> /\ Head(glob) = "*" THEN is_suffix(Tail(glob), name)
    ELSE glob = name

\* Mutant: one malformed pattern makes the whole set empty.
mk_globset_all_or_nothing(elems) ==
    IF \E i \in 1..Len(elems) : elems[i] # <<>> /\ ~Glob_new(elems[i]).ok
    THEN {}
    ELSE {Glob_new(elems[i]).value : i \in {j \in 1..Len(elems) : elems[j] # <<>>}}

\* SnippetsProducer::mk_globset: the set of the globs of the patterns that
\* are not empty and are well formed.
mk_globset(elems) ==
    IF elems = <<>> THEN {}
    ELSE {Glob_new(elems[i]).value :
             i \in {j \in 1..Len(elems) : elems[j] # <<>> /\ Glob_new(elems[j]).ok}}

\* GlobSet::is_match
is_match(globset, name) == \E g \in globset : glob_match(g, name)

\* The File Selector of the walk over the source path.
accepts(name, include_set, exclude_set) ==
    /\ ~is_match(exclude_set, name)
    /\ include_set = {} \/ is_match(include_set, name)

(***************************************************************************)
(* src/output.rs                                                           *)
(***************************************************************************)
\* Path::iter: the components of a path, without the separators.
RECURSIVE path_iter(_)
path_iter(name) ==
    IF \A i \in 1..Len(name) : name[i] # "/" THEN <<name>>
    ELSE LET k == CHOOSE i \in 1..Len(name) :
                     name[i] = "/" /\ \A j \in 1..(i - 1) : name[j] # "/"
         IN  <<SubSeq(name, 1, k - 1)>> \o path_iter(SubSeq(name, k + 1, Len(name)))

RECURSIVE join_with(_, _)
join_with(parts, sep) ==
    IF parts = <<>> THEN <<>>
    ELSE IF Len(parts) = 1 THEN parts[1]
    ELSE parts[1] \o <<sep>> \o join_with(Tail(parts), sep)

\* create_filenames, for one Snippets: the components of the source path
\* other than ".", "..", ":", "/" and "\\", joined with "_".
create_filename(name) ==
    join_with(SelectSeq(path_iter(name),
                        LAMBDA c : c \notin {<<>>, <<".">>, <<"..">>, <<":">>, <<"\\">>}),
              "_")

\* Path::with_extension: the extension of the file name, when it has one, is
\* replaced.
Extensions == {".rs", ".c", ".md"}
with_extension(file, extension) ==
    IF file # <<>> /\ file[Len(file)] \in Extensions
    THEN SubSeq(file, 1, Len(file) - 1) \o <<extension>>
    ELSE file \o <<extension>>

\* Markdown::write_format: File::create, for the first k Snippets in turn;
\* a file that exists is truncated.  A report is the file and the source
\* path of the Snippets written to it.
RECURSIVE write_format(_, _)
write_format(snippets, k) ==
    IF k = 0 THEN {}
    ELSE LET before == write_format(snippets, k - 1)
             file == with_extension(create_filename(Name(snippets[k].source_path)), ".md")
         IN  {r \in before : r.file # file}
                 \cup {[file |-> file, source_path |-> snippets[k].source_path]}

\* Arc::new, Arc::clone and the drop of a clone, on the strong count.
Arc_new == 1
\* Mutant: run keeps a second clone.
Arc_clone_twice(strong) == strong + 2
Arc_clone(strong) == strong + 1
Arc_drop(strong) == strong - 1

\* Arc::try_unwrap(..).map_err(..): the container when run holds the only
\* reference to it.
try_unwrap(strong, v) ==
    IF strong = 1 THEN Ok(v) ELSE Err("Mutability")

\* The failures of the runner: From<ConcurrentErrors> for Error.
ConcurrentErrors == {"Producer", "Sender", "Receiver", "Thread"}
From_ConcurrentErrors(e) == Err("Concurrent")

\* The arguments of the builder calls.
GlobArgs ==
    {<<>>,
     <<<<"*", ".rs">>>>,
     <<<<>>, <<"[", "a">>, <<"*", "_", "test", ".rs">>>>}
ComplexityArgs == {<<>>, <<"Cyclomatic">>}
ThresholdArgs == {<<>>, <<15>>, <<15, 150>>}

Workers == 1..num_jobs
Paths == 1..num_files

\* The contents of the files of the runs under fair scheduling: a file with
\* no language and a file with a snippet.
RunContents ==
    {FileContent("bytes", "utf8", None, None),
     FileContent("bytes", "utf8", Some("Rust"), Some(ScenarioA))}

\* SnippetsProducer::new(), before run, with a source tree whose files have
\* the given contents.
New(contents) ==
    /\ tree_contents = contents
    /\ complexities = <<"Cyclomatic">>
    /\ thresholds = <<15>>
    /\ write = FALSE
    /\ output_is_file \in BOOLEAN
    /\ include = <<>>
    /\ exclude = <<>>
    /\ pc = "new"
    /\ run_result = None
    /\ num_files \in 0..MaxFiles
    /\ num_jobs = 0
    /\ next_path = 1
    /\ queue = <<>>
    /\ wpc = <<>>
    /\ wsnip = <<>>
    /\ wlen = <<>>
    /\ mutex = 0
    /\ snippets_context = <<>>
    /\ strong_count = 0
    /\ outcome = [p \in 1..num_files |-> None]
    /\ calls = [p \in 1..num_files |-> 0]
    /\ written = {}
    /\ space = ScenarioA
    /\ source_file = <<>>
    /\ code_snippets = None

Init == New(FileContents)

Builder_complexities ==
    /\ pc = "new"
    /\ \E v \in ComplexityArgs : complexities' = v
    /\ UNCHANGED <<engine_vars, thresholds, write, output_is_file, tree_contents, include, exclude, pc,
                   run_result, scan_vars>>

Builder_thresholds ==
    /\ pc = "new"
    /\ \E v \in ThresholdArgs : thresholds' = clamp(v)
    /\ UNCHANGED <<engine_vars, complexities, write, output_is_file, tree_contents, include, exclude, pc,
                   run_result, scan_vars>>

Builder_include ==
    /\ pc = "new"
    /\ \E v \in GlobArgs : include' = v
    /\ UNCHANGED <<engine_vars, complexities, thresholds, write, output_is_file, tree_contents, exclude,
                   pc, run_result, scan_vars>>

Builder_exclude ==
    /\ pc = "new"
    /\ \E v \in GlobArgs : exclude' = v
    /\ UNCHANGED <<engine_vars, complexities, thresholds, write, output_is_file, tree_contents, include,
                   pc, run_result, scan_vars>>

Builder_enable_write ==
    /\ pc = "new"
    /\ write' = TRUE
    /\ UNCHANGED <<engine_vars, complexities, thresholds, output_is_file, tree_contents, include, exclude,
                   pc, run_result, scan_vars>>

\* run returns r.
Return(r) ==
    /\ run_result' = Some(r)
    /\ pc' = "returned"

Run_output_is_file ==
    /\ pc = "new"
    /\ output_is_file
    /\ Return(Err("FormatPath"))
    /\ UNCHANGED <<engine_vars, param_vars, scan_vars>>

Run_thresholds ==
    /\ pc = "new"
    /\ ~output_is_file
    /\ thresholds_mismatch(complexities, thresholds)
    /\ Return(Err("Thresholds"))
    /\ UNCHANGED <<engine_vars, param_vars, scan_vars>>

\* available_parallelism()? fails.
Run_no_parallelism ==
    /\ pc = "new"
    /\ ~output_is_file
    /\ ~thresholds_mismatch(complexities, thresholds)
    /\ Return(Err("Io"))
    /\ UNCHANGED <<engine_vars, param_vars, scan_vars>>

\* ConcurrentRunner::new(num_jobs, extract_file_snippets).run(cfg, files_data)
\* starts: the workers wait for jobs.
Run_scan ==
    /\ pc = "new"
    /\ ~output_is_file
    /\ ~thresholds_mismatch(complexities, thresholds)
    /\ \E n \in 1..MaxJobs :
          /\ num_jobs' = n
          /\ wpc' = [w \in 1..n |-> "recv"]
          /\ wsnip' = [w \in 1..n |-> None]
          /\ wlen' = [w \in 1..n |-> 0]
    /\ strong_count' = Arc_clone(Arc_new)
    /\ pc' = "scanning"
    /\ UNCHANGED <<engine_vars, param_vars, run_result, num_files, next_path, queue,
                   mutex, snippets_context, outcome, calls, written>>

\* The producer sends the next path of the source tree to the queue, when
\* the File Selector accepts it.
Producer_send ==
    /\ pc = "scanning"
    /\ next_path <= num_files
    /\ accepts(Name(next_path), mk_globset(include), mk_globset(exclude))
    /\ queue' = Append(queue, Some(next_path))
    /\ next_path' = next_path + 1
    /\ UNCHANGED <<engine_vars, param_vars, pc, run_result, num_files, num_jobs, wpc,
                   wsnip, wlen, mutex, snippets_context, strong_count, outcome, calls, written>>

\* The producer drops the next path of the source tree, which the File
\* Selector rejects.
Producer_skip ==
    /\ pc = "scanning"
    /\ next_path <= num_files
    /\ ~accepts(Name(next_path), mk_globset(include), mk_globset(exclude))
    /\ next_path' = next_path + 1
    /\ UNCHANGED <<engine_vars, param_vars, pc, run_result, num_files, num_jobs, queue,
                   wpc, wsnip, wlen, mutex, snippets_context, strong_count, outcome, calls, written>>

\* The jobs that tell a worker to stop, sent so far.
Stops ==
    Cardinality({i \in 1..Len(queue) : queue[i] = None})
    + Cardinality({w \in Workers : wpc[w] = "exit"})

\* After the last path, the producer sends one stop per worker.
Producer_stop ==
    /\ pc = "scanning"
    /\ next_path > num_files
    /\ Stops < num_jobs
    /\ queue' = Append(queue, None)
    /\ UNCHANGED <<engine_vars, param_vars, pc, run_result, num_files, num_jobs,
                   next_path, wpc, wsnip, wlen, mutex, snippets_context, strong_count, outcome,
                   calls, written>>

\* A worker takes a path from the queue and calls extract_file_snippets on
\* it, which runs up to the lock; a failure of the file is dropped and the
\* worker goes on with the next job.
Consumer_recv(w) ==
    /\ pc = "scanning"
    /\ wpc[w] = "recv"
    /\ queue # <<>>
    /\ is_some(Head(queue))
    /\ queue' = Tail(queue)
    /\ LET path == unwrap(Head(queue))
       IN  \E content \in tree_contents :
             LET r == extract_file_snippets(path, content, complexities, thresholds)
             IN  /\ outcome' = [outcome EXCEPT ![path] =
                                   Some([content |-> content, result |-> r])]
                 /\ calls' = [calls EXCEPT ![path] = @ + 1]
                 /\ IF r.ok /\ is_some(r.value)
                    THEN /\ wpc' = [wpc EXCEPT ![w] = "lock"]
                         /\ wsnip' = [wsnip EXCEPT ![w] = r.value]
                    ELSE UNCHANGED <<wpc, wsnip>>
    /\ UNCHANGED <<engine_vars, param_vars, pc, run_result, num_files, num_jobs,
                   next_path, wlen, mutex, snippets_context, strong_count, written>>

\* cfg.snippets.as_ref().lock()?: the worker gets the mutex and starts the push.
Worker_lock(w) ==
    /\ pc = "scanning"
    /\ wpc[w] = "lock"
    /\ lock_free(mutex)
    /\ mutex' = w
    /\ wlen' = [wlen EXCEPT ![w] = Len(snippets_context)]
    /\ wpc' = [wpc EXCEPT ![w] = "push"]
    /\ UNCHANGED <<engine_vars, param_vars, pc, run_result, num_files, num_jobs,
                   next_path, queue, wsnip, snippets_context, strong_count, outcome, calls, written>>

\* .push(snippets): the push ends, the guard is dropped and
\* extract_file_snippets returns Ok(()).
Worker_push(w) ==
    /\ pc = "scanning"
    /\ wpc[w] = "push"
    /\ snippets_context' = vec_push(snippets_context, wlen[w], unwrap(wsnip[w]))
    /\ mutex' = MutexGuard_drop(mutex)
    /\ wsnip' = [wsnip EXCEPT ![w] = None]
    /\ wlen' = [wlen EXCEPT ![w] = 0]
    /\ wpc' = [wpc EXCEPT ![w] = "recv"]
    /\ UNCHANGED <<engine_vars, param_vars, pc, run_result, num_files, num_jobs,
                   next_path, queue, strong_count, outcome, calls, written>>

\* A worker takes a stop from the queue and ends.
Consumer_exit(w) ==
    /\ pc = "scanning"
    /\ wpc[w] = "recv"
    /\ queue # <<>>
    /\ Head(queue) = None
    /\ queue' = Tail(queue)
    /\ wpc' = [wpc EXCEPT ![w] = "exit"]
    /\ UNCHANGED <<engine_vars, param_vars, pc, run_result, num_files, num_jobs,
                   next_path, wsnip, wlen, mutex, snippets_context, strong_count, outcome, calls,
                   written>>

\* The runner has joined the producer and every worker: its run returns Ok
\* and the cfg it was given, with its clone of the Arc, is dropped.
Runner_join ==
    /\ pc = "scanning"
    /\ \A w \in Workers : wpc[w] = "exit"
    /\ strong_count' = Arc_drop(strong_count)
    /\ pc' = "joined"
    /\ UNCHANGED <<engine_vars, param_vars, run_result, num_files, num_jobs, next_path,
                   queue, wpc, wsnip, wlen, mutex, snippets_context, outcome, calls,
                   written>>

\* The runner fails (the producer, a channel or a thread): its run returns
\* the error, which run returns; the threads, the channel and the container
\* of this run are gone.
Runner_fault ==
    /\ pc = "scanning"
    /\ \E r \in {From_ConcurrentErrors(e) : e \in ConcurrentErrors} : Return(r)
    /\ queue' = <<>>
    /\ wpc' = [w \in Workers |-> "exit"]
    /\ wsnip' = [w \in Workers |-> None]
    /\ wlen' = [w \in Workers |-> 0]
    /\ mutex' = 0
    /\ snippets_context' = <<>>
    /\ strong_count' = 0
    /\ UNCHANGED <<engine_vars, param_vars, num_files, num_jobs, next_path, outcome,
                   calls, written>>

\* Arc::try_unwrap(snippets_context): run takes the container out of the Arc.
Run_retrieve ==
    /\ pc = "joined"
    /\ LET r == try_unwrap(strong_count, snippets_context)
       IN  IF r.ok
           THEN /\ pc' = "retrieved"
                /\ strong_count' = 0
                /\ UNCHANGED run_result
           ELSE /\ Return(r)
                /\ UNCHANGED strong_count
    /\ UNCHANGED <<engine_vars, param_vars, num_files, num_jobs, next_path, queue, wpc,
                   wsnip, wlen, mutex, snippets_context, outcome, calls, written>>

\* "Congratulations! Your code is clean".
Run_clean ==
    /\ pc = "retrieved"
    /\ snippets_context = <<>>
    /\ Return(Ok(None))
    /\ UNCHANGED <<engine_vars, param_vars, scan_vars>>

Run_snippets ==
    /\ pc = "retrieved"
    /\ snippets_context # <<>>
    /\ ~write
    /\ Return(Ok(Some(snippets_context)))
    /\ UNCHANGED <<engine_vars, param_vars, scan_vars>>

\* write_format writes a report for every entry, or fails on the way.
Run_write ==
    /\ pc = "retrieved"
    /\ snippets_context # <<>>
    /\ write
    /\ \/ /\ written' = write_format(snippets_context, Len(snippets_context))
          /\ Return(Ok(Some(snippets_context)))
       \/ /\ \E k \in 0..(Len(snippets_context) - 1) :
                written' = write_format(snippets_context, k)
          /\ Return(Err("Io"))
    /\ UNCHANGED <<engine_vars, param_vars, num_files, num_jobs, next_path, queue, wpc,
                   wsnip, wlen, mutex, snippets_context, strong_count, outcome, calls>>

Next ==
    \/ Builder_complexities
    \/ Builder_thresholds
    \/ Builder_enable_write
    \/ Builder_include
    \/ Builder_exclude
    \/ Run_output_is_file
    \/ Run_thresholds
    \/ Run_no_parallelism
    \/ Run_scan
    \/ Producer_send
    \/ Producer_skip
    \/ Producer_stop
    \/ \E w \in Workers : Consumer_recv(w)
    \/ \E w \in Workers : Worker_lock(w)
    \/ \E w \in Workers : Worker_push(w)
    \/ \E w \in Workers : Consumer_exit(w)
    \/ Runner_join
    \/ Runner_fault
    \/ Run_retrieve
    \/ Run_clean
    \/ Run_snippets
    \/ Run_write

Spec == Init /\ [][Next]_vars

(***************************************************************************)
(* One run of a producer that is already built, under fair scheduling:     *)
(* the producer of the runner, every worker and run itself go on when they *)
(* can; a failure of the runner or of available_parallelism may happen or  *)
(* not.                                                                    *)
(***************************************************************************)
InitRun ==
    /\ New(RunContents)
    /\ ~output_is_file

NextRun ==
    \/ Builder_enable_write
    \/ Builder_exclude
    \/ Run_no_parallelism
    \/ Run_scan
    \/ Producer_send
    \/ Producer_skip
    \/ Producer_stop
    \/ \E w \in Workers : Consumer_recv(w)
    \/ \E w \in Workers : Worker_lock(w)
    \/ \E w \in Workers : Worker_push(w)
    \/ \E w \in Workers : Consumer_exit(w)
    \/ Runner_join
    \/ Runner_fault
    \/ Run_retrieve
    \/ Run_clean
    \/ Run_snippets
    \/ Run_write

Fairness ==
    /\ WF_vars(Producer_send)
    /\ WF_vars(Producer_skip)
    /\ WF_vars(Producer_stop)
    /\ \A w \in 1..MaxJobs :
          /\ WF_vars(w \in Workers /\ Consumer_recv(w))
          /\ WF_vars(w \in Workers /\ Worker_lock(w))
          /\ WF_vars(w \in Workers /\ Worker_push(w))
          /\ WF_vars(w \in Workers /\ Consumer_exit(w))
    /\ WF_vars(Runner_join)
    /\ WF_vars(Run_retrieve)
    /\ WF_vars(Run_clean)
    /\ WF_vars(Run_snippets)
    /\ WF_vars(Run_write)

SpecFair == InitRun /\ [][NextRun]_vars /\ Fairness

(***************************************************************************)
(* What the properties of the scan speak about.                            *)
(***************************************************************************)
Returned == pc = "returned"
\* The scan has ended and every worker has been joined.
Aborted == run_result = Some(Err("Concurrent"))
Scanned ==
    /\ pc \in {"joined", "retrieved", "returned"}
    /\ num_jobs > 0
    /\ ~Aborted

\* The paths the File Selector lets through.
Accepted ==
    {p \in Paths : accepts(Name(p), mk_globset(include), mk_globset(exclude))}

Called(p) == is_some(outcome[p])
ContentOf(p) == unwrap(outcome[p]).content
ResultOf(p) == unwrap(outcome[p]).result

\* The per-file failure a content leads to ("" when there is none).
FailureOf(content) ==
    IF content.read = "io_error" THEN ""
    ELSE IF content.read = "none" THEN "WrongContent"
    ELSE IF content.encoding = "invalid" THEN "NonUtf8Conversion"
    ELSE IF content.language = None THEN "UnknownLanguage"
    ELSE IF content.spaces = None THEN "NoSpaces"
    ELSE ""

\* The extraction of the path gave a Snippets.
Yielded(p) == Called(p) /\ ResultOf(p).ok /\ is_some(ResultOf(p).value)

\* The entries of the container for a path.
EntriesOf(p) ==
    {i \in 1..Len(snippets_context) : snippets_context[i].source_path = p}

\* The number of records of a Snippets.
RECURSIVE SumLen(_, _)
SumLen(f, D) ==
    IF D = {} THEN 0
    ELSE LET c == CHOOSE x \in D : TRUE IN Len(f[c]) + SumLen(f, D \ {c})
RecordCount(sn) == SumLen(sn.snippets, DOMAIN sn.snippets)

(***************************************************************************)
(* C7.  A file that fails with WrongContent, UnknownLanguage, NoSpaces or  *)
(* NonUtf8Conversion has that error as the result of its extraction and    *)
(* never has an entry in the container; once the scan has ended every      *)
(* accepted path was handed to extract_file_snippets once and every file   *)
(* that gave a Snippets has it, unchanged, in the container; and run       *)
(* returns none of the four errors: it returns Ok, or the Io error of a    *)
(* report that could not be written when writing is enabled.               *)
(***************************************************************************)
C7_FileFailureDoesNotAbort ==
    /\ \A p \in Paths :
          (Called(p) /\ FailureOf(ContentOf(p)) # "") =>
              /\ ResultOf(p) = Err(FailureOf(ContentOf(p)))
              /\ EntriesOf(p) = {}
    /\ Scanned =>
          \A p \in Accepted :
              /\ calls[p] = 1 /\ Called(p)
              /\ Yielded(p) =>
                    \E i \in 1..Len(snippets_context) :
                        snippets_context[i] = unwrap(ResultOf(p).value)
    /\ is_some(run_result) =>
          /\ unwrap(run_result).error \notin PerFileErrors
          /\ Scanned =>
                \/ unwrap(run_result).ok
                \/ write /\ unwrap(run_result) = Err("Io")

\* run has returned the entry of one file after another file failed.
C7_Witness ==
    /\ Returned
    /\ is_some(run_result)
    /\ unwrap(run_result).ok
    /\ is_some(unwrap(run_result).value)
    /\ \E p, q \in Paths :
          /\ Called(p) /\ FailureOf(ContentOf(p)) \in PerFileErrors
          /\ Yielded(q)

(***************************************************************************)
(* C8.  At most one worker is inside the push, and it holds the mutex;     *)
(* the container never has two entries for a path; once the scan has ended *)
(* the container has exactly one entry for each path whose extraction gave *)
(* a Snippets, that Snippets, and no other entry.                          *)
(***************************************************************************)
C8_ExactlyOnceAggregation ==
    /\ \A v, w \in Workers : (wpc[v] = "push" /\ wpc[w] = "push") => v = w
    /\ \A w \in Workers : wpc[w] = "push" => mutex = w
    /\ \A p \in Paths : Cardinality(EntriesOf(p)) <= 1
    /\ Scanned =>
          /\ \A p \in Paths :
                Cardinality(EntriesOf(p)) = IF Yielded(p) THEN 1 ELSE 0
          /\ \A i \in 1..Len(snippets_context) :
                LET p == snippets_context[i].source_path
                IN  /\ p \in Paths
                    /\ Yielded(p)
                    /\ snippets_context[i] = unwrap(ResultOf(p).value)

\* Two workers have ended a scan that gave two entries.
C8_Witness ==
    /\ Scanned
    /\ num_jobs = 2
    /\ Len(snippets_context) = 2

(***************************************************************************)
(* C9.  A run that returns Ok returns the clean result Ok(None) if and     *)
(* only if no scanned file produced a record, and else Ok(Some(list)) with *)
(* the whole, non-empty container.                                         *)
(* Violated: the file whose root alone is above the threshold gives a      *)
(* Snippets without records (C3), and the run returns Ok(Some(list)).      *)
(***************************************************************************)
C9_CleanIffNoRecord ==
    (is_some(run_result) /\ unwrap(run_result).ok) =>
        /\ unwrap(run_result).value = None <=>
              \A p \in Paths : Yielded(p) => RecordCount(unwrap(ResultOf(p).value)) = 0
        /\ unwrap(run_result).value # None =>
              /\ unwrap(run_result).value = Some(snippets_context)
              /\ snippets_context # <<>>

C11_EmptyThresholdSetRejected ==
    (complexities = <<>> /\ thresholds = <<>>) =>
        /\ pc \in {"new", "returned"}
        /\ num_jobs = 0
        /\ \A p \in Paths : calls[p] = 0
        /\ is_some(run_result) => ~unwrap(run_result).ok

(***************************************************************************)
(* C12.  run returns FormatPath exactly when writing is enabled and the    *)
(* output path is a file, and then no file was read; with writing disabled *)
(* an output path that is a file does not make run fail.                   *)
(* Violated: the test of lib.rs:116 does not look at the write flag, so    *)
(* new().run(source, file) returns FormatPath with writing disabled.       *)
(***************************************************************************)
C12_FormatPathOnlyWhenWriting ==
    is_some(run_result) =>
        /\ (write /\ output_is_file) =>
              /\ run_result = Some(Err("FormatPath"))
              /\ \A p \in Paths : calls[p] = 0
        /\ (~write /\ output_is_file) => run_result # Some(Err("FormatPath"))

(***************************************************************************)
(* C13.  A path that matches a pattern of the exclude list is never sent   *)
(* to the queue and never handed to a worker, whatever the include list;   *)
(* a path that matches no exclude pattern and, with an include set that is *)
(* not empty, no include pattern, is not either; once the scan has ended   *)
(* the paths handed to a worker are exactly the paths that match no        *)
(* exclude pattern and match an include pattern or face an empty include   *)
(* set.  Empty and malformed patterns count for nothing, and run never     *)
(* returns an error of a glob.                                             *)
(***************************************************************************)
WellFormed(e) == e # <<>> /\ \A i \in 1..Len(e) : e[i] # "["
MatchesAny(patterns, name) ==
    \E i \in 1..Len(patterns) :
        WellFormed(patterns[i]) /\ glob_match(patterns[i], name)
NoPattern(patterns) == \A i \in 1..Len(patterns) : ~WellFormed(patterns[i])
Selected(p) ==
    /\ ~MatchesAny(exclude, Name(p))
    /\ NoPattern(include) \/ MatchesAny(include, Name(p))
InQueue(p) == \E i \in 1..Len(queue) : queue[i] = Some(p)

C13_FileSelectorPolicy ==
    /\ \A p \in Paths :
          /\ ~Selected(p) => (calls[p] = 0 /\ ~Called(p) /\ ~InQueue(p))
          /\ Scanned => (calls[p] = 1 <=> Selected(p))
    /\ is_some(run_result) => unwrap(run_result).error # "Glob"

\* Scenario C: with *.rs included and *_test.rs excluded, after an empty and
\* a malformed pattern, foo/test.rs was analysed and foo_test.rs was not.
C13_Witness ==
    /\ Scanned
    /\ include = <<<<"*", ".rs">>>>
    /\ exclude = <<<<>>, <<"[", "a">>, <<"*", "_", "test", ".rs">>>>
    /\ num_files >= 2
    /\ calls[1] = 1
    /\ calls[2] = 0

(***************************************************************************)
(* C14.  The container a scan ends with is a function of the source tree   *)
(* and the configuration, whatever the pool size and the interleaving of   *)
(* the workers: as a set it is the set of the Snippets that                *)
(* extract_file_snippets gives for the accepted files, each once, and for  *)
(* each file and metric the list of records is the list get_code_snippets  *)
(* gives for the file.  Two runs on the same tree with the same            *)
(* configuration so end with the same set and the same lists.              *)
(***************************************************************************)
EntryOf(p) ==
    extract_file_snippets(p, ContentOf(p), complexities, thresholds)
Aggregate ==
    {unwrap(EntryOf(p).value) :
        p \in {q \in Accepted : EntryOf(q).ok /\ is_some(EntryOf(q).value)}}

C14_Determinism ==
    Scanned =>
        /\ {snippets_context[i] : i \in 1..Len(snippets_context)} = Aggregate
        /\ \A p \in Accepted :
              LET expected == EntryOf(p)
              IN  IF expected.ok /\ is_some(expected.value)
                  THEN /\ Cardinality(EntriesOf(p)) = 1
                       /\ \A i \in EntriesOf(p) :
                             LET entry == snippets_context[i]
                             IN  /\ DOMAIN entry.snippets =
                                       DOMAIN unwrap(expected.value).snippets
                                 /\ \A c \in DOMAIN entry.snippets :
                                       entry.snippets[c] =
                                           unwrap(expected.value).snippets[c]
                  ELSE EntriesOf(p) = {}

\* Two workers have ended a scan whose container holds the entry of the
\* second file before the entry of the first.
C14_Witness ==
    /\ Scanned
    /\ num_jobs = 2
    /\ Len(snippets_context) = 2
    /\ snippets_context[1].source_path = 2
    /\ snippets_context[2].source_path = 1

(***************************************************************************)
(* C15.  For a file whose bytes are not UTF-8 and that the fallback        *)
(* transcoding consumes entirely, encode_to_utf8 gives exactly the         *)
(* transcoded text and extract_file_snippets gives what it gives for the   *)
(* same text read as UTF-8.                                                *)
(* Violated: encode_to_utf8 returns the whole buffer of BUFFER_SIZE bytes, *)
(* the transcoded text followed by NUL characters.                         *)
(***************************************************************************)
C15_FallbackAsText ==
    \A p \in Paths :
        (Called(p) /\ ContentOf(p).read = "bytes"
                   /\ ContentOf(p).encoding = "shift_jis") =>
            /\ encode_to_utf8(ContentOf(p)) = Ok(ContentOf(p).text)
            /\ ResultOf(p) =
                  extract_file_snippets(p, [ContentOf(p) EXCEPT !.encoding = "utf8"],
                                        complexities, thresholds)

(***************************************************************************)
(* C16.  When the runner has returned and until run takes the container    *)
(* out of the Arc, every worker has ended, the queue is empty, no worker   *)
(* holds a Snippets to push or the mutex, and run holds the only reference *)
(* to the container: the clone given to the runner in cfg is dropped.  So  *)
(* run never returns Mutability, and a container that run has returned is  *)
(* the container as it stays: no entry is added afterwards.                *)
(***************************************************************************)
NoPushToCome ==
    /\ \A w \in Workers : wpc[w] = "exit" /\ wsnip[w] = None
    /\ queue = <<>>
    /\ mutex = 0

C16_FinalizeOrdering ==
    /\ pc = "joined" => (NoPushToCome /\ strong_count = Arc_new)
    /\ pc = "retrieved" => (NoPushToCome /\ strong_count = 0)
    /\ pc = "scanning" => strong_count > Arc_new
    /\ is_some(run_result) =>
          /\ unwrap(run_result).error # "Mutability"
          /\ is_some(unwrap(run_result).value) =>
                /\ NoPushToCome
                /\ unwrap(run_result).value = Some(snippets_context)

\* run has taken out of the Arc a container two workers have pushed to.
C16_Witness ==
    /\ pc = "retrieved"
    /\ num_jobs = 2
    /\ Len(snippets_context) = 2
    /\ strong_count = 0

(***************************************************************************)
(* C18.  When run has written the reports and returned the container,      *)
(* every entry of the container has its own report: the file names of two  *)
(* entries differ and the file of each entry holds that entry.             *)
(* Violated: foo/test.rs and foo_test.rs both give the file foo_test.md    *)
(* (the components are joined with "_"), and the report written second     *)
(* replaces the first.                                                     *)
(***************************************************************************)
FileOf(entry) == with_extension(create_filename(Name(entry.source_path)), ".md")

C18_OneReportPerEntry ==
    (Returned /\ write /\ Scanned /\ unwrap(run_result).ok
              /\ is_some(unwrap(run_result).value)) =>
        /\ \A i, j \in 1..Len(snippets_context) :
              i # j => FileOf(snippets_context[i]) # FileOf(snippets_context[j])
        /\ \A i \in 1..Len(snippets_context) :
              [file |-> FileOf(snippets_context[i]),
               source_path |-> snippets_context[i].source_path] \in written

(***************************************************************************)
(* C17.  Under fair scheduling a scan that has started ends: run returns,  *)
(* either the one error of the runner with no container, or after every    *)
(* accepted path was handed to extract_file_snippets exactly once and no   *)
(* other path was.  No path is ever handed over twice.  A worker that      *)
(* waits for the mutex gets it, and a worker that waits on the queue gets  *)
(* a job or its stop, unless the run is aborted; neither waits for the     *)
(* file of another worker to be done.                                      *)
(***************************************************************************)
Completed ==
    \A p \in Paths : calls[p] = IF p \in Accepted THEN 1 ELSE 0
AbortedWhole ==
    /\ run_result = Some(Err("Concurrent"))
    /\ unwrap(run_result).value = None

At(w, place) == w \in Workers /\ wpc[w] = place

C17_Termination ==
    /\ [](\A p \in Paths : calls[p] <= 1)
    /\ (pc = "scanning") ~> (Returned /\ (AbortedWhole \/ Completed))
    /\ \A w \in 1..MaxJobs :
          /\ (pc = "scanning" /\ At(w, "lock")) ~> (pc # "scanning" \/ At(w, "push"))
          /\ (pc = "scanning" /\ At(w, "recv")) ~> (pc # "scanning" \/ ~At(w, "recv"))

\* run has returned the container of a scan in which two workers were given
\* two files.
C17_Witness ==
    /\ Returned
    /\ ~Aborted
    /\ num_jobs = 2
    /\ num_files = 2
    /\ Completed
    /\ \A p \in Paths : calls[p] = 1

====
